---------------------------- MODULE Spec2Model ----------------------------
(***************************************************************************)
(* Model of code/part-one/validation.js: the three ledger validators       *)
(* (isValidTransaction, isValidBlock, isValidChain) and the tamper helper  *)
(* breakChain.                                                             *)
(*                                                                         *)
(* JavaScript strings are sequences of one-character strings, so that the  *)
(* `+` concatenations of the source are real concatenations and two        *)
(* different field splits of the same text are the same message.  Numbers  *)
(* are converted to text digit by digit, as `+` does with a string operand.*)
(* JavaScript null is the one-element sequence Null, which is no text.     *)
(***************************************************************************)
EXTENDS Integers, Sequences, FiniteSets

VARIABLES
    transaction,    \* the transaction handed to isValidTransaction
    signed,         \* the fields of `transaction` as they were when it was signed
    blockchain,     \* the blockchain handed to isValidChain / breakChain
    tampers,        \* how many adversarial edits the blockchain has received
    last            \* the last call made: operation, argument, outcome

vars == <<transaction, signed, blockchain, tampers, last>>

---------------------------------------------------------------------------
(* Bounds of the model *)

MaxAmount == 23
MaxBlocks == 3
MaxTampers == 1

---------------------------------------------------------------------------
(* JavaScript values *)

Null == <<"null">>

DigitChar == <<"0", "1", "2", "3", "4", "5", "6", "7", "8", "9">>

RECURSIVE Digits(_)
Digits(n) ==
    IF n < 10 THEN <<DigitChar[n + 1]>>
    ELSE Digits(n \div 10) \o <<DigitChar[(n % 10) + 1]>>

\* ToString of a number, as `"text" + number` applies it
NumberToString(n) == IF n < 0 THEN <<"-">> \o Digits(-n) ELSE Digits(n)

\* ToString of a string-or-null operand of `+`
ToText(v) == IF v = Null THEN <<"n", "u", "l", "l">> ELSE v

\* Array.prototype.join('') over an array of strings
RECURSIVE Join(_)
Join(strings) ==
    IF strings = <<>> THEN <<>> ELSE Head(strings) \o Join(Tail(strings))

---------------------------------------------------------------------------
(* Collaborators: ./signing and crypto.createHash *)

\* The signature the holder of `key`'s private half produces over `message`.
\* Keys all have length one, so the encoding is injective in (key, message).
Sign(key, message) == <<"<">> \o key \o message \o <<">">>

\* signing.verify(publicKey, message, signature)
Verify(publicKey, message, signature) == signature = Sign(publicKey, message)

\* createHash('sha512').update(text).digest('hex'): collision free
Digest(text) == <<"#">> \o text \o <<"$">>

---------------------------------------------------------------------------
(* validation.js *)

TamperedAmount == 999999999

sum(t) == t.source \o t.recipient \o NumberToString(t.amount)

\* Mutant: the amount guard is missing
isValidTransaction_NoAmountCheck(t) == Verify(t.source, sum(t), t.signature)

\* Mutant: the amount guard is `<= 0`
isValidTransaction_RejectsZero(t) ==
    IF t.amount <= 0 THEN FALSE
    ELSE Verify(t.source, sum(t), t.signature)

isValidTransaction(t) ==
    IF t.amount < 0 THEN FALSE
    ELSE Verify(t.source, sum(t), t.signature)

transactionString(block) ==
    Join([i \in 1..Len(block.transactions) |-> block.transactions[i].signature])

sumHash(block) ==
    ToText(block.previousHash) \o transactionString(block)
        \o NumberToString(block.nonce)

\* Mutant: the stored hash is not compared
isValidBlock_NoHashCheck(block) ==
    \A i \in 1..Len(block.transactions) :
        isValidTransaction(block.transactions[i])

\* Mutant: the transactions are not validated
isValidBlock_NoTransactionCheck(block) ==
    block.hash = Digest(sumHash(block))

isValidBlock(block) ==
    IF block.hash # Digest(sumHash(block)) THEN FALSE
    ELSE \A i \in 1..Len(block.transactions) :
            isValidTransaction(block.transactions[i])

\* Mutant: `!=` against the text "null" instead of `!== null`
GenesisRejected_Coerced(blocks) ==
    ToText(blocks[1].previousHash) # <<"n", "u", "l", "l">>

\* blocks[0].previousHash !== null; blocks is 1-based here
GenesisRejected(blocks) == blocks[1].previousHash # Null

\* Mutant: blocks.slice(2), the first pair is never compared
LinkBroken_SkipsFirstPair(blocks) ==
    \E i \in 2..(Len(blocks) - 1) : blocks[i + 1].previousHash # blocks[i].hash

\* blocks.slice(1).some((b, i) => b.previousHash !== blocks[i].hash)
LinkBroken(blocks) ==
    \E i \in 1..(Len(blocks) - 1) : blocks[i + 1].previousHash # blocks[i].hash

\* blocks.some(b => !isValidBlock(b))
SomeBlockInvalid(blocks) == \E i \in 1..Len(blocks) : ~isValidBlock(blocks[i])

\* blocks.map(b => b.transactions).reduce(concat, [])
Flatten(blocks) == Join([i \in 1..Len(blocks) |-> blocks[i].transactions])

\* The outcome of a call: "true", "false", or the TypeError that reading
\* blocks[0].previousHash raises when blocks[0] is undefined.
isValidChain(bc) ==
    LET blocks == bc.blocks IN
    IF Len(blocks) = 0 THEN "TypeError"
    ELSE IF GenesisRejected(blocks) THEN "false"
    ELSE IF LinkBroken(blocks) THEN "false"
    ELSE IF SomeBlockInvalid(blocks) THEN "false"
    ELSE IF \A i \in 1..Len(Flatten(blocks)) :
                isValidTransaction(Flatten(blocks)[i])
         THEN "true" ELSE "false"

\* blockchain.blocks[1].transactions[0] exists
BreakChainTarget(bc) ==
    /\ Len(bc.blocks) >= 2
    /\ Len(bc.blocks[2].transactions) >= 1

\* Mutant: every transaction of blocks[1] gets the amount
breakChain_WholeBlock(bc) ==
    [bc EXCEPT !.blocks[2].transactions =
        [j \in 1..Len(@) |-> [@[j] EXCEPT !.amount = TamperedAmount]]]

\* The blockchain after breakChain's assignment
breakChain(bc) ==
    [bc EXCEPT !.blocks[2].transactions[1].amount = TamperedAmount]

Outcome(b) == IF b THEN "true" ELSE "false"

---------------------------------------------------------------------------
(* Inputs *)

Keys == {<<"a">>, <<"b">>}
Recipients == {<<"1">>, <<"1", "2">>}
Amounts == (-1)..MaxAmount

\* A transaction as its builder makes it: the signature is over
\* source + recipient + amount
SignedTransaction(source, recipient, amount) ==
    [source |-> source, recipient |-> recipient, amount |-> amount,
     signature |-> Sign(source, source \o recipient \o NumberToString(amount))]

Call(op, arg, outcome) == [op |-> op, arg |-> arg, outcome |-> outcome]

NoBlockchain == [blocks |-> <<>>]

---------------------------------------------------------------------------
(* Transactions: signed, altered after signing, validated *)

TxInit ==
    /\ \E s \in Keys, r \in Recipients, a \in Amounts :
            transaction = SignedTransaction(s, r, a)
    /\ signed = transaction
    /\ blockchain = NoBlockchain
    /\ tampers = 0
    /\ last = Call("sign", 0, "undefined")

SignTransaction ==
    /\ \E s \in Keys, r \in Recipients, a \in Amounts :
            transaction' = SignedTransaction(s, r, a)
    /\ signed' = transaction'
    /\ last' = Call("sign", 0, "undefined")
    /\ UNCHANGED <<blockchain, tampers>>

AlterAmount ==
    /\ \E a \in Amounts \ {transaction.amount} :
            transaction' = [transaction EXCEPT !.amount = a]
    /\ last' = Call("alter", 0, "undefined")
    /\ UNCHANGED <<signed, blockchain, tampers>>

AlterSource ==
    /\ \E s \in Keys \ {transaction.source} :
            transaction' = [transaction EXCEPT !.source = s]
    /\ last' = Call("alter", 0, "undefined")
    /\ UNCHANGED <<signed, blockchain, tampers>>

AlterRecipient ==
    /\ \E r \in Recipients \ {transaction.recipient} :
            transaction' = [transaction EXCEPT !.recipient = r]
    /\ last' = Call("alter", 0, "undefined")
    /\ UNCHANGED <<signed, blockchain, tampers>>

ValidateTransaction ==
    /\ last' = Call("isValidTransaction", 0,
                    Outcome(isValidTransaction(transaction)))
    /\ UNCHANGED <<transaction, signed, blockchain, tampers>>

TxNext ==
    \/ SignTransaction
    \/ AlterAmount
    \/ AlterSource
    \/ AlterRecipient
    \/ ValidateTransaction

TxSpec == TxInit /\ [][TxNext]_vars

Fields(t) == <<t.source, t.recipient, t.amount>>

\* What of a transaction is not its amount
Rest(t) == <<t.source, t.recipient, t.signature>>

\* C1: a transaction whose amount, source or recipient differs from what was
\* signed, with the signature left as it was, is rejected.
C1_AlteredIsRejected ==
    (/\ last.op = "isValidTransaction"
     /\ transaction.signature = signed.signature
     /\ Fields(transaction) # Fields(signed))
        => last.outcome = "false"

\* C2: a transaction with a negative amount is rejected, whether or not its
\* signature verifies for source + recipient + amount.
C2_NegativeIsRejected ==
    (last.op = "isValidTransaction" /\ transaction.amount < 0)
        => last.outcome = "false"

C2_Witness ==
    /\ last.op = "isValidTransaction"
    /\ transaction.amount < 0
    /\ Verify(transaction.source, sum(transaction), transaction.signature)
    /\ last.outcome = "false"

\* C3: for amount >= 0 the verdict is that of verify(source,
\* source + recipient + amount, signature), and it is true for a transaction
\* that is as it was signed.
C3_NonNegativeIsVerify ==
    (last.op = "isValidTransaction" /\ transaction.amount >= 0)
        => /\ last.outcome =
                Outcome(transaction.signature =
                    Sign(transaction.source,
                         transaction.source \o transaction.recipient
                            \o NumberToString(transaction.amount)))
           /\ transaction = signed => last.outcome = "true"

C3_Witness ==
    /\ last.op = "isValidTransaction"
    /\ transaction.amount >= 0
    /\ transaction = signed
    /\ last.outcome = "true"

---------------------------------------------------------------------------
(* Blockchains: built block by block, edited by an adversary, validated *)

Small == SignedTransaction(<<"a">>, <<"1">>, 3)
Large == SignedTransaction(<<"a">>, <<"1">>, TamperedAmount)

\* The transaction lists blocks are made with
TransactionLists == {<<>>, <<Large>>, <<Small, Large>>}

EditedAmounts == {-1, 3, TamperedAmount}
Nonces == {0, 1}

\* The hash a block is given when it is made
CalculateHash(previousHash, transactions, nonce) ==
    Digest(ToText(previousHash)
           \o Join([i \in 1..Len(transactions) |-> transactions[i].signature])
           \o NumberToString(nonce))

Block(previousHash, transactions, nonce) ==
    [previousHash |-> previousHash, transactions |-> transactions,
     nonce |-> nonce,
     hash |-> CalculateHash(previousHash, transactions, nonce)]

Blocks == blockchain.blocks

\* A digest that is the hash of no block
BogusHash == Digest(<<"x">>)

\* The block with its hash computed again from its present content
Rehashed(block) ==
    [block EXCEPT !.hash =
        CalculateHash(block.previousHash, block.transactions, block.nonce)]

ChainInit ==
    /\ transaction = SignedTransaction(<<"a">>, <<"1">>, 0)
    /\ signed = transaction
    /\ blockchain = NoBlockchain
    /\ tampers = 0
    /\ last = Call("none", 0, "undefined")

\* A block is mined on top of the chain; the adversary edits the chain after
\* it was built
AddBlock ==
    /\ Len(Blocks) < MaxBlocks
    /\ tampers = 0
    /\ \E txs \in TransactionLists :
        blockchain' =
            [blocks |-> Append(Blocks,
                Block(IF Len(Blocks) = 0 THEN Null
                      ELSE Blocks[Len(Blocks)].hash, txs, 0))]
    /\ last' = Call("none", 0, "undefined")
    /\ UNCHANGED <<transaction, signed, tampers>>

Tampered ==
    /\ tampers < MaxTampers
    /\ tampers' = tampers + 1
    /\ last' = Call("none", 0, "undefined")
    /\ UNCHANGED <<transaction, signed>>

\* An amount is rewritten; the block's hash does not cover it
TamperAmount ==
    /\ \E i \in 1..Len(Blocks) : \E j \in 1..Len(Blocks[i].transactions) :
       \E a \in EditedAmounts \ {Blocks[i].transactions[j].amount} :
            blockchain' =
                [blockchain EXCEPT !.blocks[i].transactions[j].amount = a]
    /\ Tampered

\* A nonce is rewritten, the hash left stale or computed again
TamperNonce ==
    /\ \E i \in 1..Len(Blocks) : \E n \in Nonces \ {Blocks[i].nonce} :
       \E rehash \in BOOLEAN :
            LET edited == [Blocks[i] EXCEPT !.nonce = n] IN
            blockchain' = [blockchain EXCEPT !.blocks[i] =
                            IF rehash THEN Rehashed(edited) ELSE edited]
    /\ Tampered

\* A stored hash is overwritten
TamperHash ==
    /\ \E i \in 1..Len(Blocks) :
            /\ Blocks[i].hash # BogusHash
            /\ blockchain' = [blockchain EXCEPT !.blocks[i].hash = BogusHash]
    /\ Tampered

\* A previousHash is rewritten, the hash left stale or computed again
TamperPreviousHash ==
    /\ \E i \in 1..Len(Blocks) :
       \E h \in {Null, <<"n", "u", "l", "l">>, BogusHash}
                    \ {Blocks[i].previousHash} :
       \E rehash \in BOOLEAN :
            LET edited == [Blocks[i] EXCEPT !.previousHash = h] IN
            blockchain' = [blockchain EXCEPT !.blocks[i] =
                            IF rehash THEN Rehashed(edited) ELSE edited]
    /\ Tampered

ValidateBlock ==
    /\ \E i \in 1..Len(Blocks) :
            last' = Call("isValidBlock", i, Outcome(isValidBlock(Blocks[i])))
    /\ UNCHANGED <<transaction, signed, blockchain, tampers>>

ValidateChain ==
    /\ last' = Call("isValidChain", 0, isValidChain(blockchain))
    /\ UNCHANGED <<transaction, signed, blockchain, tampers>>

\* breakChain throws, and assigns nothing, when blocks[1] or its first
\* transaction is undefined
BreakChain ==
    /\ IF BreakChainTarget(blockchain)
       THEN /\ blockchain' = breakChain(blockchain)
            /\ last' = Call("breakChain", 0, "undefined")
       ELSE /\ blockchain' = blockchain
            /\ last' = Call("breakChain", 0, "TypeError")
    /\ UNCHANGED <<transaction, signed, tampers>>

Next ==
    \/ AddBlock
    \/ TamperAmount
    \/ TamperNonce
    \/ TamperHash
    \/ TamperPreviousHash
    \/ ValidateBlock
    \/ ValidateChain
    \/ BreakChain

Spec == ChainInit /\ [][Next]_vars

Transactions(block) ==
    {block.transactions[j] : j \in 1..Len(block.transactions)}

HashMatches(block) ==
    block.hash =
        CalculateHash(block.previousHash, block.transactions, block.nonce)

GenesisIsNull == Blocks[1].previousHash = Null

Linked ==
    \A i \in 1..(Len(Blocks) - 1) : Blocks[i + 1].previousHash = Blocks[i].hash

\* C4: isValidBlock is false when the stored hash is not the digest of
\* previousHash + signatures + nonce, even if every transaction is valid; and
\* when the hash matches it is true exactly when every transaction is valid.
C4_BlockVerdict ==
    last.op = "isValidBlock" =>
        LET block == Blocks[last.arg] IN
        last.outcome =
            Outcome(/\ HashMatches(block)
                    /\ \A t \in Transactions(block) : isValidTransaction(t))

C4_Witness ==
    /\ last.op = "isValidBlock"
    /\ ~HashMatches(Blocks[last.arg])
    /\ Transactions(Blocks[last.arg]) # {}
    /\ \A t \in Transactions(Blocks[last.arg]) : isValidTransaction(t)
    /\ last.outcome = "false"

\* C5: a chain of two or more blocks in which some block's previousHash is
\* not its immediate predecessor's hash is rejected.
C5_BrokenLinkIsRejected ==
    (last.op = "isValidChain" /\ Len(Blocks) >= 2 /\ ~Linked)
        => last.outcome = "false"

C5_Witness ==
    /\ last.op = "isValidChain"
    /\ Len(Blocks) >= 3
    /\ GenesisIsNull
    /\ Blocks[2].previousHash = Blocks[1].hash
    /\ Blocks[3].previousHash # Blocks[2].hash
    /\ \A i \in 1..Len(Blocks) : isValidBlock(Blocks[i])
    /\ last.outcome = "false"

\* C6: isValidChain returns false, and does not throw, for a chain with no
\* blocks, and returns false when the genesis previousHash is not null.
C6_NoGenesisIsFalse ==
    (/\ last.op = "isValidChain"
     /\ (Len(Blocks) = 0 \/ ~GenesisIsNull))
        => last.outcome = "false"

\* C7: breakChain turns every valid chain (two or more blocks, block 1 with a
\* transaction) into one that isValidChain rejects: the edited transaction
\* fails, while genesis, links and stored hashes still pass.
C7_BreakChainInvalidates ==
    [][(/\ BreakChain
        /\ BreakChainTarget(blockchain)
        /\ isValidChain(blockchain) = "true")
            => /\ isValidChain(blockchain') = "false"
               /\ ~isValidTransaction(blockchain'.blocks[2].transactions[1])
               /\ blockchain'.blocks[1].previousHash = Null
               /\ \A i \in 1..(Len(blockchain'.blocks) - 1) :
                    blockchain'.blocks[i + 1].previousHash
                        = blockchain'.blocks[i].hash
               /\ \A i \in 1..Len(blockchain'.blocks) :
                    HashMatches(blockchain'.blocks[i])]_vars

\* C8: on a chain with at least one block, isValidChain is true exactly when
\* the genesis previousHash is null, every block is linked to its
\* predecessor, every block passes isValidBlock and every transaction passes
\* isValidTransaction.
C8_ChainVerdict ==
    (last.op = "isValidChain" /\ Len(Blocks) >= 1) =>
        last.outcome =
            Outcome(/\ GenesisIsNull
                    /\ Linked
                    /\ \A i \in 1..Len(Blocks) : isValidBlock(Blocks[i])
                    /\ \A i \in 1..Len(Blocks) :
                       \A t \in Transactions(Blocks[i]) : isValidTransaction(t))

C8_Witness ==
    /\ last.op = "isValidChain"
    /\ Len(Blocks) = 1
    /\ GenesisIsNull
    /\ isValidBlock(Blocks[1])
    /\ last.outcome = "true"

\* C9: breakChain sets blocks[1].transactions[0].amount to 999999999 and
\* changes nothing else; the validators change nothing.
C9_Frame ==
    [][/\ (last'.op = "breakChain" /\ last'.outcome = "undefined") =>
            /\ Len(blockchain'.blocks) = Len(Blocks)
            /\ blockchain'.blocks[2].transactions[1].amount = 999999999
            /\ \A i \in 1..Len(Blocks) :
                LET old == Blocks[i]
                    new == blockchain'.blocks[i]
                IN  /\ new.hash = old.hash
                    /\ new.previousHash = old.previousHash
                    /\ new.nonce = old.nonce
                    /\ Len(new.transactions) = Len(old.transactions)
                    /\ \A j \in 1..Len(old.transactions) :
                        /\ Rest(new.transactions[j]) = Rest(old.transactions[j])
                        /\ <<i, j>> # <<2, 1>> =>
                            new.transactions[j].amount
                                = old.transactions[j].amount
       /\ last'.op \in {"isValidTransaction", "isValidBlock", "isValidChain"}
            => (blockchain' = blockchain /\ transaction' = transaction)]_vars

C9_Witness ==
    /\ last.op = "breakChain"
    /\ last.outcome = "undefined"
    /\ Len(Blocks) >= 3
    /\ Len(Blocks[2].transactions) >= 2
    /\ Blocks[2].transactions[1].amount = 999999999
    /\ ~isValidTransaction(Blocks[2].transactions[1])

\* C10: when the genesis check, the link check and the per-block check pass,
\* every transaction passes isValidTransaction, so the verdict is the one of
\* these three checks and the final check over all transactions decides
\* nothing.
C10_FlatCheckDecidesNothing ==
    (last.op = "isValidChain" /\ Len(Blocks) >= 1) =>
        LET passed == /\ ~GenesisRejected(Blocks)
                      /\ ~LinkBroken(Blocks)
                      /\ ~SomeBlockInvalid(Blocks)
        IN  /\ passed =>
                \A i \in 1..Len(Blocks) :
                \A t \in Transactions(Blocks[i]) : isValidTransaction(t)
            /\ last.outcome = Outcome(passed)

C10_Witness ==
    /\ last.op = "isValidChain"
    /\ Len(Blocks) >= 2
    /\ GenesisIsNull
    /\ Linked
    /\ \A i \in 1..Len(Blocks) : HashMatches(Blocks[i])
    /\ \E i \in 1..Len(Blocks) :
       \E t \in Transactions(Blocks[i]) : ~isValidTransaction(t)
    /\ SomeBlockInvalid(Blocks)
    /\ last.outcome = "false"

=============================================================================
